---------------------------- MODULE Spec2Model ----------------------------
(***************************************************************************)
(* Launch Pools raffle: the weighted ticket-range ledger of BaseRaffle /   *)
(* SingleWinnerRaffle (web3/contracts), the MockEntropy oracle that feeds  *)
(* its draw, the older ProjectRaffle selection it replaced, and the       *)
(* registry of RaffleFactory (FactorySpec).                                *)
(*                                                                         *)
(* Every external call is one atomic step (a transaction).  A call that    *)
(* reverts leaves the contract state as it was and is visible only in tx,  *)
(* the record of the last transaction (its inputs, its revert reason, its  *)
(* return value).                                                          *)
(***************************************************************************)
EXTENDS Integers, Sequences, FiniteSets, TLC

\* ------------------------------------------------------------- bounds ---
\* Largest value of the unsigned integer type (2^256 - 1 in the contracts):
\* additions are checked against it; msg.value and the seeds range over
\* 0 .. MaxUint.
MaxUint == 4
\* buyTickets is not called once the ledger holds this many entries.
MaxEntries == 3
\* block.timestamp runs from 0 to MaxTime.
MaxTime == 1
\* createSingleWinnerRaffle is not called once the factory holds this many
\* raffles.
MaxRaffles == 3
MaxRequests == 2
MaxDonations == 2

\* ---------------------------------------------------------- addresses ---
ZERO == "0x0"
OWNER == "owner"
ADMIN == "admin"
ALICE == "alice"
PROJECT == "project"
PROVIDER == "provider"
RAFFLE == "raffle"

\* The accounts that send transactions.
Callers == {OWNER, ADMIN, ALICE}
\* The accounts that buy tickets: one that is authorized to manage the
\* raffle and one that is not.
Buyers == {OWNER, ALICE}

\* uint256 public constant BASIS_POINTS = 10000;
BASIS_POINTS == 10000

\* MockEntropy.baseFee, in units of the fee (the deployments set 0.0001 ether).
baseFee == 1

VARIABLES
    state,                  \* RaffleState
    participants,           \* TicketRange[]: <<[owner, upperBound], ...>>
    totalTickets,
    winner,                 \* SingleWinnerRaffle.winner
    fundsDistributed,
    entropySequenceNumber,
    minTicketPrice,
    raffleDuration,
    raffleStartTime,
    platformFee,
    projectPercentage,
    balance,                \* address(this).balance of the raffle
    payments,               \* PullPayment escrow: payee -> credited amount
    counter,                \* MockEntropy.counter
    requests,               \* MockEntropy.requests: sequence number -> Request
    now,                    \* block.timestamp
    tx,                     \* the last transaction
    contributed             \* history: buyer -> sum of the msg.value of its
                            \* accepted buyTickets calls

\* RaffleFactory
VARIABLES
    raffles,                \* BaseRaffle[]: the addresses, in creation order
    isRaffle,               \* mapping(address => bool)
    nonce,                  \* the factory account's nonce: the next CREATE
    ftx,                    \* the last call to the factory
    created                 \* history: the addresses successful creations
                            \* returned, in order

\* The off-chain campaign record of the web application and the endCampaign
\* requests in progress on the server.
VARIABLES
    campaignStatus,         \* campaigns.status of the campaign
    donations,              \* the campaign's donations rows: donor wallets
    raffleWinners,          \* the campaign's raffle_winners rows
    handlers                \* each endCampaign request: where it is, what it
                            \* read and what it answered

config == <<minTicketPrice, raffleDuration, raffleStartTime, platformFee,
            projectPercentage>>
ledger == <<participants, totalTickets>>
raffle == <<state, participants, totalTickets, winner, fundsDistributed,
            entropySequenceNumber, balance, payments>>
oracle == <<counter, requests>>
factory == <<raffles, isRaffle, nonce, ftx, created>>
campaign == <<campaignStatus, donations, raffleWinners, handlers>>
vars == <<state, participants, totalTickets, winner, fundsDistributed,
          entropySequenceNumber, minTicketPrice, raffleDuration,
          raffleStartTime, platformFee, projectPercentage, balance,
          payments, counter, requests, now, tx, contributed,
          raffles, isRaffle, nonce, ftx, created,
          campaignStatus, donations, raffleWinners, handlers>>

\* ------------------------------------------------------- transactions ---
Tx(op, sender, value, seed, seq, err, ret) ==
    [op |-> op, sender |-> sender, value |-> value, seed |-> seed,
     seq |-> seq, err |-> err, ret |-> ret]

NoRequest == [consumer |-> ZERO, provider |-> ZERO]

\* The sequence numbers MockEntropy.respond is called with: the one request
\* a raffle can register (MockEntropy.counter after it) and one never made.
SeqNums == 0 .. 1

\* msg.value sent with requestEntropy: below, at and above the fee.
FeeValues == {baseFee - 1, baseFee, baseFee + 1}

\* --------------------------------------------------------- constructor ---
\* The arguments a deployment passes; the constructor's requires keep the
\* valid ones.
ConstructorArgs ==
    [projectPercentage : {0, 5000, BASIS_POINTS + 1},
     raffleDuration    : 0 .. 1,
     platformFee       : {1000, 1001},
     minTicketPrice    : 0 .. 2]

\* Mutant: the constructor does not require a positive minimum ticket price.
ConstructorOk_NoMinPrice(a) ==
    /\ a.projectPercentage > 0
    /\ a.projectPercentage <= BASIS_POINTS
    /\ a.raffleDuration > 0
    /\ a.platformFee <= 1000

ConstructorOk(a) ==
    /\ a.projectPercentage > 0
    /\ a.projectPercentage <= BASIS_POINTS
    /\ a.raffleDuration > 0
    /\ a.platformFee <= 1000
    /\ a.minTicketPrice > 0

\* ------------------------------------------- RaffleFactory: deployment ---
\* Addresses the factory is asked about: address n is the contract the
\* factory creates with nonce n; address 0 and the last one are never a
\* raffle of the factory.
FactoryAddresses == 0 .. MaxRaffles + 1

\* A call to the factory: its arguments (those the function has), its
\* revert reason, and what it returned.
FTx(op, sender, args, err, out) ==
    [op |-> op, sender |-> sender, args |-> args, err |-> err, out |-> out]

\* The factory after its constructor: no raffle registered; a contract
\* account starts with nonce 1.
FactoryDeployed ==
    /\ raffles = <<>>
    /\ isRaffle = [a \in FactoryAddresses |-> FALSE]
    /\ nonce = 1
    /\ ftx = FTx("constructor", OWNER, <<>>, "", <<>>)
    /\ created = <<>>

\* ----------------------------------------- the campaign in the database ---
Requests == 1 .. MaxRequests

\* A request: pc is the await it is suspended at ("idle" before it arrives,
\* "done" and "failed" after its answer), winning the donor it selected,
\* err the error it threw.
Handler(pc, user, winning, err) ==
    [pc |-> pc, user |-> user, winning |-> winning, err |-> err]

\* The campaign as created: active, no donation, no winner; its creator is
\* OWNER.
CampaignCreated ==
    /\ campaignStatus = "active"
    /\ donations = <<>>
    /\ raffleWinners = <<>>
    /\ handlers = [r \in Requests |-> Handler("idle", ZERO, ZERO, "")]

Init ==
    \E a \in ConstructorArgs :
        /\ ConstructorOk(a)
        /\ projectPercentage = a.projectPercentage
        /\ raffleDuration = a.raffleDuration
        /\ platformFee = a.platformFee
        /\ minTicketPrice = a.minTicketPrice
        /\ now = 0
        /\ raffleStartTime = now
        /\ state = "Active"
        /\ participants = <<>>
        /\ totalTickets = 0
        /\ winner = ZERO
        /\ fundsDistributed = FALSE
        /\ entropySequenceNumber = 0
        /\ balance = 0
        /\ payments = [p \in {PROJECT, ADMIN, OWNER, ALICE} |-> 0]
        /\ counter = 0
        /\ requests = [s \in SeqNums |-> NoRequest]
        /\ tx = Tx("constructor", OWNER, 0, 0, 0, "", ZERO)
        /\ contributed = [b \in Callers |-> 0]
        /\ FactoryDeployed
        /\ CampaignCreated

\* --------------------------------------------------------- buyTickets ---
\* Mutant: unchecked arithmetic, the sum wraps around the integer width.
NewTotal_Wraps(total, value) == (total + value) % (MaxUint + 1)

\* Mutant: one ticket per purchase instead of one per wei.
NewTotal_CountsEntries(total, value) == total + 1

\* totalTickets += msg.value under checked arithmetic.
NewTotal(total, value) == total + value

\* Mutant: a purchase at exactly the end time is still accepted.
BuyTicketsErr_EndInclusive(value) ==
    IF state # "Active" THEN "Raffle not active"
    ELSE IF ~(now <= raffleStartTime + raffleDuration) THEN "Raffle ended"
    ELSE IF ~(value >= minTicketPrice) THEN "Amount below minimum ticket price"
    ELSE IF NewTotal(totalTickets, value) > MaxUint THEN "Panic(0x11)"
    ELSE ""

\* Mutant: purchases are accepted in any lifecycle state.
BuyTicketsErr_IgnoresState(value) ==
    IF ~(now < raffleStartTime + raffleDuration) THEN "Raffle ended"
    ELSE IF ~(value >= minTicketPrice) THEN "Amount below minimum ticket price"
    ELSE IF NewTotal(totalTickets, value) > MaxUint THEN "Panic(0x11)"
    ELSE ""

\* Mutant: the minimum itself is refused (> instead of >=).
BuyTicketsErr_StrictMinimum(value) ==
    IF state # "Active" THEN "Raffle not active"
    ELSE IF ~(now < raffleStartTime + raffleDuration) THEN "Raffle ended"
    ELSE IF ~(value > minTicketPrice) THEN "Amount below minimum ticket price"
    ELSE IF NewTotal(totalTickets, value) > MaxUint THEN "Panic(0x11)"
    ELSE ""

BuyTicketsErr(value) ==
    IF state # "Active" THEN "Raffle not active"
    ELSE IF ~(now < raffleStartTime + raffleDuration) THEN "Raffle ended"
    ELSE IF ~(value >= minTicketPrice) THEN "Amount below minimum ticket price"
    ELSE IF NewTotal(totalTickets, value) > MaxUint THEN "Panic(0x11)"
    ELSE ""

\* The post-purchase auto-close of buyTickets: its condition is evaluated
\* after the purchase, in the same block.
AutoClose ==
    now >= raffleStartTime + raffleDuration /\ state = "Active"

\* Mutant: the entry is pushed before totalTickets is increased.
Push_BeforeIncrement(ranges, sender, total, value) ==
    Append(ranges, [owner |-> sender, upperBound |-> total])

\* Mutant: one entry per distinct buyer; a purchase by an account that
\* already owns an entry adds no entry and only raises the last bound.
Push_OneEntryPerOwner(ranges, sender, total, value) ==
    IF \E k \in 1 .. Len(ranges) : ranges[k].owner = sender
    THEN [ranges EXCEPT ![Len(ranges)].upperBound = NewTotal(total, value)]
    ELSE Append(ranges, [owner |-> sender, upperBound |-> NewTotal(total, value)])

\* Mutant: a repeat purchase by the owner of the last entry widens that
\* entry instead of adding one.
Push_MergesRepeatBuyer(ranges, sender, total, value) ==
    IF Len(ranges) > 0 /\ ranges[Len(ranges)].owner = sender
    THEN [ranges EXCEPT ![Len(ranges)].upperBound = NewTotal(total, value)]
    ELSE Append(ranges, [owner |-> sender, upperBound |-> NewTotal(total, value)])

\* participants.push(TicketRange({owner: msg.sender, upperBound: totalTickets}))
\* after totalTickets += msg.value; total is totalTickets before the call.
Push(ranges, sender, total, value) ==
    Append(ranges, [owner |-> sender, upperBound |-> NewTotal(total, value)])

\* Mutant: totalTickets is increased before the requirements are checked
\* and a rejected call does not undo it.
buyTickets_KeepsTotalOnReject(sender, value) ==
    /\ Len(participants) < MaxEntries
    /\ LET err == BuyTicketsErr(value) IN
       /\ tx' = Tx("buyTickets", sender, value, 0, 0, err, ZERO)
       /\ IF err = ""
          THEN /\ totalTickets' = NewTotal(totalTickets, value)
               /\ participants' = Push(participants, sender, totalTickets, value)
               /\ balance' = balance + value
               /\ state' = IF AutoClose THEN "Closed" ELSE state
               /\ contributed' = [contributed EXCEPT ![sender] = @ + value]
               /\ UNCHANGED <<winner, fundsDistributed, entropySequenceNumber,
                              payments>>
          ELSE /\ totalTickets' =
                      IF NewTotal(totalTickets, value) > MaxUint
                      THEN totalTickets
                      ELSE NewTotal(totalTickets, value)
               /\ UNCHANGED <<participants, balance, state, contributed,
                              winner, fundsDistributed, entropySequenceNumber,
                              payments>>
    /\ UNCHANGED <<campaign, factory, config, oracle, now>>

buyTickets(sender, value) ==
    /\ Len(participants) < MaxEntries
    /\ LET err == BuyTicketsErr(value) IN
       /\ tx' = Tx("buyTickets", sender, value, 0, 0, err, ZERO)
       /\ IF err = ""
          THEN /\ totalTickets' = NewTotal(totalTickets, value)
               /\ participants' = Push(participants, sender, totalTickets, value)
               /\ balance' = balance + value
               /\ state' = IF AutoClose THEN "Closed" ELSE state
               /\ contributed' = [contributed EXCEPT ![sender] = @ + value]
               /\ UNCHANGED <<winner, fundsDistributed, entropySequenceNumber,
                              payments>>
          ELSE UNCHANGED <<raffle, contributed>>
    /\ UNCHANGED <<campaign, factory, config, oracle, now>>

\* ------------------------------------------------- onlyOwnerOrAdmin ----
\* Mutant: the modifier lets every caller through.
onlyOwnerOrAdmin_Anyone(sender) == TRUE

onlyOwnerOrAdmin(sender) == sender = OWNER \/ sender = ADMIN

\* ------------------------------------------------------ _selectWinner ---
\* participants[i], with the contract's indices (from 0).
At(ranges, i) == ranges[i + 1]

\* Mutant: the entry keeps the target equal to its upper bound (<= for <).
GoesLeft_Inclusive(randomTicket, upperBound) == randomTicket <= upperBound

\* The branch of the search loop: randomTicket < participants[mid].upperBound
\* moves right to mid, otherwise left moves to mid + 1.
GoesLeft(randomTicket, upperBound) == randomTicket < upperBound

\* Mutant: the search drops mid when it moves right down (right = mid - 1).
RECURSIVE BinarySearch_DropsMid(_, _, _, _)
BinarySearch_DropsMid(ranges, randomTicket, left, right) ==
    IF left < right
    THEN LET mid == (left + right) \div 2 IN
         IF GoesLeft(randomTicket, ranges[mid + 1].upperBound)
         THEN BinarySearch_DropsMid(ranges, randomTicket, left, mid - 1)
         ELSE BinarySearch_DropsMid(ranges, randomTicket, mid + 1, right)
    ELSE left

RECURSIVE BinarySearch(_, _, _, _)
BinarySearch(ranges, randomTicket, left, right) ==
    IF left < right
    THEN LET mid == (left + right) \div 2 IN
         IF GoesLeft(randomTicket, At(ranges, mid).upperBound)
         THEN BinarySearch(ranges, randomTicket, left, mid)
         ELSE BinarySearch(ranges, randomTicket, mid + 1, right)
    ELSE left

\* One iteration of the search loop, as the interval it leaves.
\* Mutant: moving left up keeps mid (left = mid for left = mid + 1).
SearchStep_KeepsMid(ranges, randomTicket, left, right) ==
    LET mid == (left + right) \div 2 IN
    IF GoesLeft(randomTicket, At(ranges, mid).upperBound)
    THEN [left |-> left, right |-> mid]
    ELSE [left |-> mid, right |-> right]

SearchStep(ranges, randomTicket, left, right) ==
    LET mid == (left + right) \div 2 IN
    IF GoesLeft(randomTicket, At(ranges, mid).upperBound)
    THEN [left |-> left, right |-> mid]
    ELSE [left |-> mid + 1, right |-> right]

\* The iterations of while (left < right), each with the interval it
\* starts from, its mid and the interval it leaves; at most `steps` of them
\* are unfolded.
RECURSIVE SearchRun(_, _, _, _, _)
SearchRun(ranges, randomTicket, left, right, steps) ==
    IF left < right /\ steps > 0
    THEN LET after == SearchStep(ranges, randomTicket, left, right) IN
         <<[left |-> left, right |-> right, mid |-> (left + right) \div 2,
            after |-> after]>>
         \o SearchRun(ranges, randomTicket, after.left, after.right, steps - 1)
    ELSE <<>>

\* The interval the unfolded iterations end with.
SearchEnd(run, left, right) ==
    IF run = <<>> THEN [left |-> left, right |-> right]
    ELSE run[Len(run)].after

\* Mutant: the target ranges over 0 .. totalTickets inclusive.
RandomTicket_Inclusive(total, seed) == seed % (total + 1)

\* uint256(entropySeed) % totalTickets
RandomTicket(total, seed) == seed % total

\* Mutant: the selection requires more than one participant.
SelectWinnerErr_NeedsTwo(ranges, total) ==
    IF ~(Len(ranges) > 1) THEN "No participants"
    ELSE IF total = 0 THEN "Panic(0x12)"
    ELSE ""

\* The revert of _selectWinner, "" when it returns.
SelectWinnerErr(ranges, total) ==
    IF ~(Len(ranges) > 0) THEN "No participants"
    ELSE IF total = 0 THEN "Panic(0x12)"
    ELSE ""

\* The index _selectWinner's loop ends on.
WinnerIndex(ranges, total, seed) ==
    BinarySearch(ranges, RandomTicket(total, seed), 0, Len(ranges) - 1)

\* Mutant: the selection mixes the block timestamp into the seed.
selectWinner_TimeSalted(ranges, total, seed) ==
    At(ranges, BinarySearch(ranges, RandomTicket(total, seed + now),
                            0, Len(ranges) - 1)).owner

selectWinner(ranges, total, seed) ==
    At(ranges, WinnerIndex(ranges, total, seed)).owner

\* ------------------------------- the older ProjectRaffle._selectWinner ---
\* Mutant: the older search keeps a target equal to the cumulative total
\* in the entry that ends there (< for <=).
ContinuesRight_Strict(cumulative, randomTicket) == cumulative < randomTicket

\* The older contract searches cumulativeTickets, a plain array of the
\* cumulative totals; its loop tests the opposite branch first:
\* cumulativeTickets[mid] <= randomTicket moves left to mid + 1, otherwise
\* right moves to mid.
ContinuesRight(cumulative, randomTicket) == cumulative <= randomTicket

RECURSIVE BinarySearchOld(_, _, _, _)
BinarySearchOld(cumulativeTickets, randomTicket, left, right) ==
    IF left < right
    THEN LET mid == (left + right) \div 2 IN
         IF ContinuesRight(At(cumulativeTickets, mid), randomTicket)
         THEN BinarySearchOld(cumulativeTickets, randomTicket, mid + 1, right)
         ELSE BinarySearchOld(cumulativeTickets, randomTicket, left, mid)
    ELSE left

\* -------------------------------------------------------- closeRaffle ---
\* Mutant: closeRaffle does not require the raffle to be Active.
CloseRaffleErr_AnyState(sender) ==
    IF ~onlyOwnerOrAdmin(sender) THEN "Not authorized"
    ELSE ""

CloseRaffleErr(sender) ==
    IF ~onlyOwnerOrAdmin(sender) THEN "Not authorized"
    ELSE IF state # "Active" THEN "Raffle not active"
    ELSE ""

closeRaffle(sender) ==
    LET err == CloseRaffleErr(sender) IN
    /\ tx' = Tx("closeRaffle", sender, 0, 0, 0, err, ZERO)
    /\ IF err = ""
       THEN /\ state' = "Closed"
            /\ UNCHANGED <<participants, totalTickets, winner,
                           fundsDistributed, entropySequenceNumber, balance,
                           payments>>
       ELSE UNCHANGED raffle
    /\ UNCHANGED <<campaign, factory, config, oracle, now, contributed>>

\* ----------------------------------------------------- requestEntropy ---
\* The state after the "close it first" block that requestEntropy and
\* forceSelectWinner start with; "revert" when its require fails.
CloseIfExpired ==
    IF state = "Active"
    THEN IF now >= raffleStartTime + raffleDuration THEN "Closed" ELSE "revert"
    ELSE state

\* Mutant: the fee is checked before the ledger.
RequestEntropyErr_FeeFirst(sender, value) ==
    IF ~onlyOwnerOrAdmin(sender) THEN "Not authorized"
    ELSE IF CloseIfExpired = "revert" THEN "Raffle still active"
    ELSE IF CloseIfExpired # "Closed" THEN "Raffle must be closed"
    ELSE IF ~(value >= baseFee) THEN "Insufficient fee"
    ELSE IF ~(totalTickets > 0) THEN "No tickets sold"
    ELSE IF ~(Len(participants) > 0) THEN "No participants"
    ELSE ""

RequestEntropyErr(sender, value) ==
    IF ~onlyOwnerOrAdmin(sender) THEN "Not authorized"
    ELSE IF CloseIfExpired = "revert" THEN "Raffle still active"
    ELSE IF CloseIfExpired # "Closed" THEN "Raffle must be closed"
    ELSE IF ~(totalTickets > 0) THEN "No tickets sold"
    ELSE IF ~(Len(participants) > 0) THEN "No participants"
    ELSE IF ~(value >= baseFee) THEN "Insufficient fee"
    ELSE ""

\* Mutant: a failing call keeps the writes made before the failing require
\* (Closed after expiry, AwaitingDraw before the fee check).
requestEntropy_KeepsTentativeWrites(sender, value) ==
    LET err == RequestEntropyErr(sender, value) IN
    /\ err = "" => counter + 1 \in SeqNums
    /\ tx' = Tx("requestEntropy", sender, value, 0, 0, err, ZERO)
    /\ IF err = ""
       THEN /\ state' = "AwaitingDraw"
            /\ counter' = counter + 1
            /\ requests' = [requests EXCEPT ![counter + 1] =
                                [consumer |-> RAFFLE, provider |-> PROVIDER]]
            /\ entropySequenceNumber' = counter + 1
            /\ balance' = balance + value - baseFee - (value - baseFee)
            /\ UNCHANGED <<participants, totalTickets, winner,
                           fundsDistributed, payments>>
       ELSE /\ state' = CASE err = "Insufficient fee" -> "AwaitingDraw"
                          [] err \in {"No tickets sold", "No participants"} -> "Closed"
                          [] OTHER -> state
            /\ UNCHANGED <<participants, totalTickets, winner, fundsDistributed,
                           entropySequenceNumber, balance, payments, oracle>>
    /\ UNCHANGED <<campaign, factory, config, now, contributed>>

\* The fee goes to the entropy contract, the excess back to the sender:
\* the raffle's balance ends where it started.
requestEntropy(sender, value) ==
    LET err == RequestEntropyErr(sender, value) IN
    /\ err = "" => counter + 1 \in SeqNums
    /\ tx' = Tx("requestEntropy", sender, value, 0, 0, err, ZERO)
    /\ IF err = ""
       THEN /\ state' = "AwaitingDraw"
            /\ counter' = counter + 1
            /\ requests' = [requests EXCEPT ![counter + 1] =
                                [consumer |-> RAFFLE, provider |-> PROVIDER]]
            /\ entropySequenceNumber' = counter + 1
            /\ balance' = balance + value - baseFee - (value - baseFee)
            /\ UNCHANGED <<participants, totalTickets, winner,
                           fundsDistributed, payments>>
       ELSE UNCHANGED <<raffle, oracle>>
    /\ UNCHANGED <<campaign, factory, config, now, contributed>>

\* --------------------------------- MockEntropy.respond / entropyCallback ---
\* Mutant: the callback does not require the raffle to await its draw.
EntropyCallbackErr_AnyState(sequenceNumber, provider) ==
    IF sequenceNumber # entropySequenceNumber THEN "Invalid sequence number"
    ELSE IF provider # PROVIDER THEN "Invalid provider"
    ELSE SelectWinnerErr(participants, totalTickets)

\* Mutant: the callback does not compare the sequence number.
EntropyCallbackErr_AnySequence(sequenceNumber, provider) ==
    IF state # "AwaitingDraw" THEN "Not awaiting draw"
    ELSE IF provider # PROVIDER THEN "Invalid provider"
    ELSE SelectWinnerErr(participants, totalTickets)

EntropyCallbackErr(sequenceNumber, provider) ==
    IF state # "AwaitingDraw" THEN "Not awaiting draw"
    ELSE IF sequenceNumber # entropySequenceNumber THEN "Invalid sequence number"
    ELSE IF provider # PROVIDER THEN "Invalid provider"
    ELSE SelectWinnerErr(participants, totalTickets)

RespondErr(sequenceNumber) ==
    IF requests[sequenceNumber].consumer = ZERO
    THEN "MockEntropy: unknown request"
    ELSE EntropyCallbackErr(sequenceNumber, requests[sequenceNumber].provider)

respond(sequenceNumber, randomNumber) ==
    LET err == RespondErr(sequenceNumber) IN
    /\ tx' = Tx("respond", PROVIDER, 0, randomNumber, sequenceNumber, err, ZERO)
    /\ IF err = ""
       THEN /\ winner' = selectWinner(participants, totalTickets, randomNumber)
            /\ state' = "Finalized"
            /\ UNCHANGED <<participants, totalTickets, fundsDistributed,
                           entropySequenceNumber, balance, payments>>
       ELSE UNCHANGED raffle
    /\ UNCHANGED <<campaign, factory, config, oracle, now, contributed>>

\* -------------------------------------- entropyCallback, called directly ---
\* The entropy contract delivers a callback through
\* IEntropyConsumer._entropyCallback with a sequence number, a provider and
\* a random number of its own: the raffle's pending request or another.
ENTROPY == "entropy"
Providers == {PROVIDER, ZERO}
CallbackSeeds == {0, MaxUint}


entropyCallback(sequenceNumber, provider, randomNumber) ==
    LET err == EntropyCallbackErr(sequenceNumber, provider) IN
    /\ tx' = ("provider" :> provider) @@
               Tx("entropyCallback", ENTROPY, 0, randomNumber, sequenceNumber,
                  err, ZERO)
    /\ IF err = ""
       THEN /\ winner' = selectWinner(participants, totalTickets, randomNumber)
            /\ state' = "Finalized"
            /\ UNCHANGED <<participants, totalTickets, fundsDistributed,
                           entropySequenceNumber, balance, payments>>
       ELSE UNCHANGED raffle
    /\ UNCHANGED <<campaign, factory, config, oracle, now, contributed>>

\* -------------------------------------------------- forceSelectWinner ---
\* Mutant: the forced draw is refused once entropy has been requested.
ForceSelectWinnerErr_ClosedOnly(sender) ==
    IF ~onlyOwnerOrAdmin(sender) THEN "Not authorized"
    ELSE IF CloseIfExpired = "revert" THEN "Raffle still active"
    ELSE IF ~(CloseIfExpired = "Closed") THEN "Invalid state"
    ELSE IF ~(Len(participants) > 0) THEN "No participants"
    ELSE IF ~(totalTickets > 0) THEN "No tickets sold"
    ELSE SelectWinnerErr(participants, totalTickets)

ForceSelectWinnerErr(sender) ==
    IF ~onlyOwnerOrAdmin(sender) THEN "Not authorized"
    ELSE IF CloseIfExpired = "revert" THEN "Raffle still active"
    ELSE IF ~(CloseIfExpired = "Closed" \/ CloseIfExpired = "AwaitingDraw")
         THEN "Invalid state"
    ELSE IF ~(Len(participants) > 0) THEN "No participants"
    ELSE IF ~(totalTickets > 0) THEN "No tickets sold"
    ELSE SelectWinnerErr(participants, totalTickets)

\* Mutant: the forced draw finalizes the raffle without storing a winner.
forceSelectWinner_SkipsDraw(sender, randomNumber) ==
    LET err == ForceSelectWinnerErr(sender) IN
    /\ tx' = Tx("forceSelectWinner", sender, 0, randomNumber, 0, err, ZERO)
    /\ IF err = ""
       THEN /\ state' = "Finalized"
            /\ UNCHANGED <<winner, participants, totalTickets, fundsDistributed,
                           entropySequenceNumber, balance, payments>>
       ELSE UNCHANGED raffle
    /\ UNCHANGED <<campaign, factory, config, oracle, now, contributed>>

forceSelectWinner(sender, randomNumber) ==
    LET err == ForceSelectWinnerErr(sender) IN
    /\ tx' = Tx("forceSelectWinner", sender, 0, randomNumber, 0, err, ZERO)
    /\ IF err = ""
       THEN /\ winner' = selectWinner(participants, totalTickets, randomNumber)
            /\ state' = "Finalized"
            /\ UNCHANGED <<participants, totalTickets, fundsDistributed,
                           entropySequenceNumber, balance, payments>>
       ELSE UNCHANGED raffle
    /\ UNCHANGED <<campaign, factory, config, oracle, now, contributed>>

\* ---------------------------------------------------- distributeFunds ---
\* Mutant: distributeFunds does not look at fundsDistributed.
DistributeFundsErr_Repeatable(sender) ==
    IF ~onlyOwnerOrAdmin(sender) THEN "Not authorized"
    ELSE IF state # "Finalized" THEN "Draw not executed"
    ELSE IF winner = ZERO THEN "No winner selected"
    ELSE ""

DistributeFundsErr(sender) ==
    IF ~onlyOwnerOrAdmin(sender) THEN "Not authorized"
    ELSE IF state # "Finalized" THEN "Draw not executed"
    ELSE IF fundsDistributed THEN "Funds already distributed"
    ELSE IF winner = ZERO THEN "No winner selected"
    ELSE ""

PlatformAmount(totalBalance) == (totalBalance * platformFee) \div BASIS_POINTS
\* Mutant: the project's share is taken from the whole balance, before
\* the platform fee is deducted.
ProjectAmount_BeforeFee(totalBalance) ==
    (totalBalance * projectPercentage) \div BASIS_POINTS

ProjectAmount(totalBalance) ==
    ((totalBalance - PlatformAmount(totalBalance)) * projectPercentage)
        \div BASIS_POINTS
\* Mutant: the winner's share is computed as a percentage of the pool
\* instead of as the remainder.
WinnerAmount_ByPercentage(totalBalance) ==
    ((totalBalance - PlatformAmount(totalBalance))
        * (BASIS_POINTS - projectPercentage)) \div BASIS_POINTS

WinnerAmount(totalBalance) ==
    (totalBalance - PlatformAmount(totalBalance)) - ProjectAmount(totalBalance)

\* The tests' _calculateDistribution: the same arithmetic with the
\* percentages as arguments.
calculateDistribution(totalBalance, pct, fee, basisPoints) ==
    LET platformAmount == (totalBalance * fee) \div basisPoints
        distributablePool == totalBalance - platformAmount
        projectAmount == (distributablePool * pct) \div basisPoints
    IN  [platformAmount |-> platformAmount,
         projectAmount |-> projectAmount,
         winnerAmount |-> distributablePool - projectAmount]

\* PullPayment._asyncTransfer: the amount moves into the escrow, credited
\* to dest.
AsyncTransfer(credits, dest, amount) ==
    [credits EXCEPT ![dest] = @ + amount]

distributeFunds(sender) ==
    LET err == DistributeFundsErr(sender) IN
    /\ tx' = Tx("distributeFunds", sender, 0, 0, 0, err, ZERO)
    /\ IF err = ""
       THEN /\ fundsDistributed' = TRUE
            /\ payments' =
                   AsyncTransfer(
                       AsyncTransfer(
                           AsyncTransfer(payments, PROJECT,
                                         ProjectAmount(balance)),
                           ADMIN, PlatformAmount(balance)),
                       winner, WinnerAmount(balance))
            /\ balance' = balance - ProjectAmount(balance)
                              - PlatformAmount(balance) - WinnerAmount(balance)
            /\ UNCHANGED <<state, participants, totalTickets, winner,
                           entropySequenceNumber>>
       ELSE UNCHANGED raffle
    /\ UNCHANGED <<campaign, factory, config, oracle, now, contributed>>

\* ------------------------------------------------------ previewWinner ---
PreviewWinnerErr ==
    IF ~(Len(participants) > 0) THEN "No participants"
    ELSE SelectWinnerErr(participants, totalTickets)

\* Mutant: the preview picks by entry, the seed reduced modulo the number
\* of entries, instead of by ticket.
previewWinner_ByEntry(sender, entropySeed) ==
    LET err == PreviewWinnerErr IN
    /\ tx' = Tx("previewWinner", sender, 0, entropySeed, 0, err,
                IF err = ""
                THEN At(participants, entropySeed % Len(participants)).owner
                ELSE ZERO)
    /\ UNCHANGED <<campaign, factory, raffle, config, oracle, now, contributed>>

\* Mutant: the preview records the owner it computed as the winner.
previewWinner_StoresWinner(sender, entropySeed) ==
    LET err == PreviewWinnerErr IN
    /\ tx' = Tx("previewWinner", sender, 0, entropySeed, 0, err,
                IF err = ""
                THEN selectWinner(participants, totalTickets, entropySeed)
                ELSE ZERO)
    /\ IF err = ""
       THEN /\ winner' = selectWinner(participants, totalTickets, entropySeed)
            /\ UNCHANGED <<state, participants, totalTickets, fundsDistributed,
                           entropySequenceNumber, balance, payments>>
       ELSE UNCHANGED raffle
    /\ UNCHANGED <<campaign, factory, config, oracle, now, contributed>>

previewWinner(sender, entropySeed) ==
    LET err == PreviewWinnerErr IN
    /\ tx' = Tx("previewWinner", sender, 0, entropySeed, 0, err,
                IF err = ""
                THEN selectWinner(participants, totalTickets, entropySeed)
                ELSE ZERO)
    /\ UNCHANGED <<campaign, factory, raffle, config, oracle, now, contributed>>

\* ----------------------------------------------------------- time ------
Tick ==
    /\ now < MaxTime
    /\ now' = now + 1
    /\ tx' = Tx("tick", ZERO, 0, 0, 0, "", ZERO)
    /\ UNCHANGED <<campaign, factory, raffle, config, oracle, contributed>>

\* The seeds the draws and previews are called with: the smallest and the
\* largest values of bytes32.  The claims about the selection range over
\* every seed of 0 .. MaxUint.
Seeds == {0, 1, MaxUint - 1, MaxUint}

Next ==
    \/ \E s \in Buyers, v \in 0 .. MaxUint : buyTickets(s, v)
    \/ \E s \in Callers : closeRaffle(s)
    \/ \E s \in Callers, v \in FeeValues : requestEntropy(s, v)
    \/ \E n \in SeqNums, r \in Seeds : respond(n, r)
    \/ \E n \in SeqNums, p \in Providers, r \in CallbackSeeds :
          entropyCallback(n, p, r)
    \/ \E s \in Callers, r \in Seeds : forceSelectWinner(s, r)
    \/ \E s \in Callers : distributeFunds(s)
    \/ \E s \in Callers, r \in Seeds : previewWinner(s, r)
    \/ Tick

Spec == Init /\ [][Next]_vars

\* The steps the owner takes to bring the raffle to its end: each is a call
\* that is accepted.
OwnerCloses == closeRaffle(OWNER) /\ tx'.err = ""
OwnerRequests == \E v \in FeeValues : requestEntropy(OWNER, v) /\ tx'.err = ""
OwnerForces == \E r \in Seeds : forceSelectWinner(OWNER, r) /\ tx'.err = ""
OwnerDistributes == distributeFunds(OWNER) /\ tx'.err = ""

\* Time passes and the owner keeps operating the raffle: a call of the
\* owner that would be accepted from now on is eventually made.  Nothing is
\* assumed of the entropy provider, the buyers or the other callers.
Fairness ==
    /\ WF_vars(Tick)
    /\ WF_vars(OwnerCloses)
    /\ WF_vars(OwnerRequests)
    /\ WF_vars(OwnerForces)
    /\ WF_vars(OwnerDistributes)

\* The calls that are accepted.  A rejected call changes nothing but tx,
\* the record of the last call, which no guard reads: with or without the
\* rejected calls the raffle goes through the same states.
LiveNext ==
    \/ \E s \in Buyers, v \in 0 .. MaxUint : buyTickets(s, v) /\ tx'.err = ""
    \/ \E s \in Callers : closeRaffle(s) /\ tx'.err = ""
    \/ \E s \in Callers, v \in FeeValues : requestEntropy(s, v) /\ tx'.err = ""
    \/ \E n \in SeqNums, r \in Seeds : respond(n, r) /\ tx'.err = ""
    \/ \E n \in SeqNums, p \in Providers, r \in CallbackSeeds :
          entropyCallback(n, p, r) /\ tx'.err = ""
    \/ \E s \in Callers, r \in Seeds : forceSelectWinner(s, r) /\ tx'.err = ""
    \/ \E s \in Callers : distributeFunds(s) /\ tx'.err = ""
    \/ \E s \in Callers, r \in Seeds : previewWinner(s, r) /\ tx'.err = ""
    \/ Tick

LiveSpec == Init /\ [][LiveNext]_vars /\ Fairness

\* ======================================================== RaffleFactory ===
\* ------------------------------------------- createSingleWinnerRaffle ---
\* Mutant: a project percentage of 0 is accepted.
CreateErr_ZeroPercentage(pct, projectAddress, duration) ==
    IF ~(pct <= 10000) THEN "Project percentage cannot exceed 100%"
    ELSE IF projectAddress = ZERO THEN "Invalid project address"
    ELSE IF ~(duration > 0) THEN "Duration must be > 0"
    ELSE ""

\* The requires of createSingleWinnerRaffle; the constructor of the raffle
\* repeats them and passes on the factory's fee, price and gas limit.
CreateErr(pct, projectAddress, duration) ==
    IF ~(pct <= 10000) THEN "Project percentage cannot exceed 100%"
    ELSE IF ~(pct > 0) THEN "Project percentage must be > 0"
    ELSE IF projectAddress = ZERO THEN "Invalid project address"
    ELSE IF ~(duration > 0) THEN "Duration must be > 0"
    ELSE ""

\* Mutant: the new raffle is pushed but not flagged in isRaffle.
Register_PushOnly(flags, addr) == flags

\* isRaffle[address(raffle)] = true
Register(flags, addr) == [flags EXCEPT ![addr] = TRUE]

\* new SingleWinnerRaffle(...): the address is fixed by the factory's
\* nonce, which a successful creation increments and a reverted one does
\* not.
createSingleWinnerRaffle(sender, pct, projectAddress, duration) ==
    /\ Len(raffles) < MaxRaffles
    /\ LET err == CreateErr(pct, projectAddress, duration)
           addr == nonce
       IN  /\ ftx' = FTx("createSingleWinnerRaffle", sender,
                         [projectPercentage |-> pct,
                          projectAddress |-> projectAddress,
                          raffleDuration |-> duration],
                         err, IF err = "" THEN <<addr>> ELSE <<>>)
           /\ IF err = ""
              THEN /\ raffles' = Append(raffles, addr)
                   /\ isRaffle' = Register(isRaffle, addr)
                   /\ nonce' = nonce + 1
                   /\ created' = Append(created, addr)
              ELSE UNCHANGED <<raffles, isRaffle, nonce, created>>
    /\ UNCHANGED <<campaign, raffle, config, oracle, now, tx, contributed>>

\* ------------------------------------------------------ getRaffleCount ---
getRaffleCount == Len(raffles)

callGetRaffleCount(sender) ==
    /\ ftx' = FTx("getRaffleCount", sender, <<>>, "", <<getRaffleCount>>)
    /\ UNCHANGED <<raffles, isRaffle, nonce, created>>
    /\ UNCHANGED <<campaign, raffle, config, oracle, now, tx, contributed>>

\* ------------------------------------------------- isRaffle (getter) ---
callIsRaffle(sender, addr) ==
    /\ ftx' = FTx("isRaffle", sender, [addr |-> addr], "", <<isRaffle[addr]>>)
    /\ UNCHANGED <<raffles, isRaffle, nonce, created>>
    /\ UNCHANGED <<campaign, raffle, config, oracle, now, tx, contributed>>

\* ------------------------------------------------------- getAllRaffles ---
\* The revert of getAllRaffles: the require, then the checked addition
\* offset + limit.
GetAllRafflesErr(offset, limit) ==
    IF ~(offset < Len(raffles)) THEN "Offset out of bounds"
    ELSE IF offset + limit > MaxUint THEN "Panic(0x11)"
    ELSE ""

\* end: offset + limit, cut down to total.
PageEnd(offset, limit) ==
    IF offset + limit > Len(raffles) THEN Len(raffles) ELSE offset + limit

\* result[i] = address(raffles[offset + i]) for i < end - offset
Page(offset, limit) ==
    [i \in 1 .. PageEnd(offset, limit) - offset |-> At(raffles, offset + (i - 1))]

getAllRaffles(sender, offset, limit) ==
    LET err == GetAllRafflesErr(offset, limit) IN
    /\ ftx' = FTx("getAllRaffles", sender, [offset |-> offset, limit |-> limit],
                  err,
                  IF err = ""
                  THEN [result |-> Page(offset, limit),
                        hasMore |-> PageEnd(offset, limit) < Len(raffles)]
                  ELSE <<>>)
    /\ UNCHANGED <<raffles, isRaffle, nonce, created>>
    /\ UNCHANGED <<campaign, raffle, config, oracle, now, tx, contributed>>

\* ---------------------------------------------------- getLatestRaffles ---
\* result[i] = address(raffles[startIndex + i]), startIndex = total -
\* actualCount.
LatestEntry(total, actualCount, i) == At(raffles, (total - actualCount) + i)

Latest(count) ==
    LET total == Len(raffles) IN
    IF total = 0 THEN <<>>
    ELSE LET actualCount == IF count > total THEN total ELSE count IN
         [i \in 1 .. actualCount |-> LatestEntry(total, actualCount, i - 1)]

getLatestRaffles(sender, count) ==
    /\ ftx' = FTx("getLatestRaffles", sender, [count |-> count], "",
                  Latest(count))
    /\ UNCHANGED <<raffles, isRaffle, nonce, created>>
    /\ UNCHANGED <<campaign, raffle, config, oracle, now, tx, contributed>>

\* The arguments createSingleWinnerRaffle is called with.
CreateArgs ==
    [projectPercentage : {0, 1, BASIS_POINTS, BASIS_POINTS + 1},
     projectAddress    : {ZERO, PROJECT},
     raffleDuration    : 0 .. 1]

FactoryNext ==
    \/ \E s \in Callers, a \in CreateArgs :
          createSingleWinnerRaffle(s, a.projectPercentage, a.projectAddress,
                                   a.raffleDuration)
    \/ \E s \in Callers : callGetRaffleCount(s)
    \/ \E s \in Callers, a \in FactoryAddresses : callIsRaffle(s, a)
    \/ \E s \in Callers, offset \in 0 .. MaxUint, limit \in 0 .. MaxUint :
          getAllRaffles(s, offset, limit)
    \/ \E s \in Callers, count \in 0 .. MaxUint : getLatestRaffles(s, count)

\* The factory on its own: the raffle of the other specification stays as
\* deployed.
FactorySpec == Init /\ [][FactoryNext]_vars

\* -------------------------------------------- endCampaign (web server) ---
\* recordDonation: the donation row is inserted, whatever the campaign's
\* status.
recordDonation(donorAddress) ==
    /\ Len(donations) < MaxDonations
    /\ donations' = Append(donations, donorAddress)
    /\ UNCHANGED <<campaignStatus, raffleWinners, handlers>>
    /\ UNCHANGED <<factory, raffle, config, oracle, now, tx, contributed>>

ReadCampaignErr(userAddress) ==
    IF OWNER # userAddress THEN "Not authorized"
    ELSE IF campaignStatus # "active" THEN "Campaign is not active"
    ELSE ""

\* The request arrives: it reads the campaign, checks the caller and the
\* status it read, and then sleeps.
ReadCampaign(r, userAddress) ==
    LET err == ReadCampaignErr(userAddress) IN
    /\ handlers[r].pc = "idle"
    /\ handlers' = [handlers EXCEPT ![r] =
          Handler(IF err = "" THEN "waiting" ELSE "failed", userAddress, ZERO, err)]
    /\ UNCHANGED <<campaignStatus, donations, raffleWinners>>
    /\ UNCHANGED <<factory, raffle, config, oracle, now, tx, contributed>>

\* After the sleep the request reads the donations and selects one at
\* random; it does not read the campaign again.
ReadDonations(r, randomIndex) ==
    /\ handlers[r].pc = "waiting"
    /\ IF Len(donations) = 0
       THEN handlers' = [handlers EXCEPT ![r] =
                Handler("failed", handlers[r].user, ZERO,
                        "No donations found for this campaign")]
       ELSE handlers' = [handlers EXCEPT ![r] =
                Handler("selected", handlers[r].user,
                        donations[(randomIndex % Len(donations)) + 1], "")]
    /\ UNCHANGED <<campaignStatus, donations, raffleWinners>>
    /\ UNCHANGED <<factory, raffle, config, oracle, now, tx, contributed>>

\* The raffle_winners row: tx_hash, the only unique column besides the id,
\* is drawn at random by each request and stands here as the request's
\* number.
InsertWinner(r) ==
    /\ handlers[r].pc = "selected"
    /\ raffleWinners' = Append(raffleWinners,
          [winnerWalletAddress |-> handlers[r].winning, txHash |-> r])
    /\ handlers' = [handlers EXCEPT ![r].pc = "inserted"]
    /\ UNCHANGED <<campaignStatus, donations>>
    /\ UNCHANGED <<factory, raffle, config, oracle, now, tx, contributed>>

UpdateStatus(r) ==
    /\ handlers[r].pc = "inserted"
    /\ campaignStatus' = "winner_selected"
    /\ handlers' = [handlers EXCEPT ![r].pc = "done"]
    /\ UNCHANGED <<donations, raffleWinners>>
    /\ UNCHANGED <<factory, raffle, config, oracle, now, tx, contributed>>

CampaignNext ==
    \/ \E d \in Buyers : recordDonation(d)
    \/ \E r \in Requests, u \in Callers : ReadCampaign(r, u)
    \/ \E r \in Requests, i \in 0 .. MaxDonations - 1 : ReadDonations(r, i)
    \/ \E r \in Requests : InsertWinner(r)
    \/ \E r \in Requests : UpdateStatus(r)

\* The web server on its own: requests interleave at their awaits.
CampaignSpec == Init /\ [][CampaignNext]_vars

\* ----------------------------------------------------------- helpers ---
Last(ranges) == ranges[Len(ranges)]

\* The upper bound of the entry before entry i (indices from 0), 0 for the
\* first entry.
PreviousUpperBound(ranges, i) ==
    IF i = 0 THEN 0 ELSE At(ranges, i - 1).upperBound

\* The reference selection: scan from the first entry for the first one
\* whose upperBound exceeds the target.
RECURSIVE LinearScan(_, _, _)
LinearScan(ranges, target, i) ==
    IF i >= Len(ranges) - 1 \/ At(ranges, i).upperBound > target
    THEN i
    ELSE LinearScan(ranges, target, i + 1)

IsPrefix(s, t) ==
    /\ Len(s) <= Len(t)
    /\ \A i \in 1 .. Len(s) : s[i] = t[i]

DrawOps == {"respond", "entropyCallback", "forceSelectWinner"}
Drawn == tx.op \in DrawOps /\ tx.err = ""

\* ------------------------------------------------------------ claims ---

\* C1: for every non-empty ledger and every seed, _selectWinner returns the
\* owner of the lowest index i with participants[i].upperBound > seed mod
\* totalTickets, i.e. previousUpperBound(i) <= target < upperBound(i); the
\* binary search agrees with a linear scan, and a draw stores that owner.
C1_LowestIndexAboveTarget ==
    Len(participants) > 0 =>
        /\ \A seed \in 0 .. MaxUint :
              LET target == seed % totalTickets
                  i == WinnerIndex(participants, totalTickets, seed)
              IN  /\ i \in 0 .. Len(participants) - 1
                  /\ At(participants, i).upperBound > target
                  /\ \A j \in 0 .. i - 1 : At(participants, j).upperBound <= target
                  /\ PreviousUpperBound(participants, i) <= target
                  /\ i = LinearScan(participants, target, 0)
                  /\ selectWinner(participants, totalTickets, seed)
                        = At(participants, LinearScan(participants, target, 0)).owner
        /\ Drawn =>
              winner = At(participants,
                          LinearScan(participants, tx.seed % totalTickets, 0)).owner

\* C1 witness: a draw on three entries of unequal width whose target is
\* exactly the first entry's upper bound picked the second entry.
C1_Witness ==
    /\ Drawn
    /\ Len(participants) = 3
    /\ participants[2].upperBound - participants[1].upperBound
          # participants[1].upperBound
    /\ tx.seed % totalTickets = participants[1].upperBound
    /\ participants[1].owner # participants[2].owner
    /\ winner = participants[2].owner

\* C2: for every owner, the number of targets in [0, totalTickets) that
\* select the owner equals the sum of the amounts the owner contributed,
\* over all of its entries.
C2_TargetsPerOwner ==
    \A o \in Callers :
        Cardinality({t \in 0 .. totalTickets - 1 :
                        selectWinner(participants, totalTickets, t) = o})
            = contributed[o]

\* C2 witness: an owner holds two entries that are not adjacent, of
\* different amounts, and another owner holds the entry between them.
C2_Witness ==
    /\ Len(participants) = 3
    /\ participants[1].owner = participants[3].owner
    /\ participants[2].owner # participants[1].owner
    /\ participants[1].upperBound
          # participants[3].upperBound - participants[2].upperBound
    /\ contributed[participants[1].owner]
          = participants[1].upperBound
              + (participants[3].upperBound - participants[2].upperBound)

\* C3: the upperBound values are strictly increasing along participants,
\* and the first is positive: no range has zero width.
C3_StrictlyIncreasing ==
    /\ \A i \in 1 .. Len(participants) - 1 :
          participants[i].upperBound < participants[i + 1].upperBound
    /\ Len(participants) > 0 => participants[1].upperBound > 0

\* C3 witness: three purchases have been recorded.
C3_Witness ==
    /\ tx.op = "buyTickets" /\ tx.err = ""
    /\ Len(participants) = 3

\* C4: totalTickets is the upperBound of the last entry, 0 for an empty
\* ledger, in every state between two transactions.
C4_TotalIsLastUpperBound ==
    totalTickets =
        IF Len(participants) = 0 THEN 0 ELSE Last(participants).upperBound

\* C4 witness: a purchase has just been added to a non-empty ledger.
C4_Witness ==
    /\ tx.op = "buyTickets" /\ tx.err = ""
    /\ Len(participants) >= 2
    /\ totalTickets > 0

\* The sum of all accepted purchase amounts.
SumContributed == contributed[OWNER] + contributed[ADMIN] + contributed[ALICE]

\* C5: a successful buyTickets by sender s with value w appends exactly the
\* entry (s, old totalTickets + w) and sets totalTickets to old
\* totalTickets + w; totalTickets is always the sum of the purchased amounts.
C5_PurchaseAppendsOneEntry ==
    /\ [][tx'.op = "buyTickets" /\ tx'.err = "" =>
            /\ participants' =
                   Append(participants,
                          [owner |-> tx'.sender,
                           upperBound |-> totalTickets + tx'.value])
            /\ totalTickets' = totalTickets + tx'.value]_vars
    /\ [](totalTickets = SumContributed)

\* C5 witness: two buyers have purchased, the last purchase being of more
\* than one ticket.
C5_Witness ==
    /\ tx.op = "buyTickets" /\ tx.err = "" /\ tx.value > 1
    /\ contributed[OWNER] > 0 /\ contributed[ALICE] > 0
    /\ Last(participants) = [owner |-> tx.sender, upperBound |-> totalTickets]

\* C6: in every step of every operation the previous participants sequence
\* is a prefix of the new one.
C6_AppendOnly == [][IsPrefix(participants, participants')]_vars

\* C6 witness: the draw has been executed and the funds distributed on a
\* ledger in which one owner has two consecutive entries.
C6_Witness ==
    /\ state = "Finalized" /\ fundsDistributed
    /\ Len(participants) = 3
    /\ participants[2].owner = participants[3].owner

\* C7: buyTickets with value 0 or any value below minTicketPrice is rejected
\* and leaves participants and totalTickets unchanged; minTicketPrice is
\* positive; a value equal to minTicketPrice is accepted by an open raffle.
C7_BelowMinimumRejected ==
    /\ [][tx'.op = "buyTickets" =>
            /\ (tx'.value = 0 \/ tx'.value < minTicketPrice) =>
                  /\ tx'.err # ""
                  /\ UNCHANGED <<participants, totalTickets>>
            /\ ( /\ tx'.value = minTicketPrice
                 /\ state = "Active"
                 /\ now < raffleStartTime + raffleDuration
                 /\ totalTickets + tx'.value <= MaxUint ) =>
                  /\ tx'.err = ""
                  /\ Len(participants') = Len(participants) + 1]_vars
    /\ [](minTicketPrice > 0)

\* C7 witness: a positive amount below the minimum was refused by an open
\* raffle that already holds an entry.
C7_Witness ==
    /\ tx.op = "buyTickets"
    /\ tx.value > 0 /\ tx.value < minTicketPrice
    /\ tx.err = "Amount below minimum ticket price"
    /\ Len(participants) > 0

EmptyGuardedOps == {"previewWinner", "requestEntropy", "forceSelectWinner"}

\* C8 as stated: on a raffle with zero participants previewWinner,
\* requestEntropy and forceSelectWinner are rejected with a
\* no-participants / no-tickets error, leaving state and winner unchanged.
C8_NoParticipantsError ==
    [][Len(participants) = 0 /\ tx'.op \in EmptyGuardedOps =>
          /\ tx'.err \in {"No participants", "No tickets sold"}
          /\ UNCHANGED <<state, winner>>]_vars

\* C8 amended: on a raffle with zero participants previewWinner is rejected
\* with "No participants"; requestEntropy and forceSelectWinner are rejected
\* with "Not authorized" for a caller that is neither owner nor admin, with
\* "Raffle still active" while the raffle is Active and its duration has not
\* elapsed, and otherwise with "No tickets sold" (requestEntropy) or "No
\* participants" (forceSelectWinner); no modulo by totalTickets is evaluated
\* and the raffle's state, winner included, is unchanged.
C8_EmptyLedgerRejected ==
    /\ [][Len(participants) = 0 /\ tx'.op \in EmptyGuardedOps =>
            /\ UNCHANGED raffle
            /\ tx'.err =
                 CASE tx'.op = "previewWinner" -> "No participants"
                   [] ~(tx'.sender \in {OWNER, ADMIN}) -> "Not authorized"
                   [] state = "Active" /\ now < raffleStartTime + raffleDuration
                          -> "Raffle still active"
                   [] tx'.op = "requestEntropy" -> "No tickets sold"
                   [] OTHER -> "No participants"]_vars
    /\ [](Len(participants) = 0 =>
             winner = ZERO /\ state \in {"Active", "Closed"})

\* C8 witness: the admin's forced draw on a closed raffle without
\* participants was refused.
C8_Witness ==
    /\ Len(participants) = 0 /\ totalTickets = 0
    /\ state = "Closed"
    /\ tx.op = "forceSelectWinner" /\ tx.sender = ADMIN
    /\ tx.err = "No participants"
    /\ winner = ZERO

\* C9: for every non-empty ledger the target seed mod totalTickets lies in
\* [0, totalTickets - 1] and the returned index is a valid index; target 0
\* selects the owner of the first entry and target totalTickets - 1 the
\* owner of the last entry.
C9_BoundaryTargets ==
    Len(participants) > 0 =>
        /\ \A seed \in 0 .. MaxUint :
              LET target == RandomTicket(totalTickets, seed)
                  i == WinnerIndex(participants, totalTickets, seed)
              IN  /\ target \in 0 .. totalTickets - 1
                  /\ i \in 0 .. Len(participants) - 1
                  /\ seed % totalTickets = 0 =>
                        /\ i = 0
                        /\ selectWinner(participants, totalTickets, seed)
                              = participants[1].owner
                  /\ seed % totalTickets = totalTickets - 1 =>
                        /\ i = Len(participants) - 1
                        /\ selectWinner(participants, totalTickets, seed)
                              = Last(participants).owner
        /\ Drawn /\ tx.seed % totalTickets = 0 => winner = participants[1].owner
        /\ Drawn /\ tx.seed % totalTickets = totalTickets - 1 =>
              winner = Last(participants).owner

\* C9 witness: a draw whose seed exceeds totalTickets and reduces to the
\* last ticket picked the last entry, owned by another account than the
\* first.
C9_Witness ==
    /\ Drawn
    /\ Len(participants) >= 2
    /\ tx.seed >= totalTickets
    /\ tx.seed % totalTickets = totalTickets - 1
    /\ winner = Last(participants).owner
    /\ winner # participants[1].owner

\* The cumulative totals of a ledger, as the older contract's
\* cumulativeTickets array holds them.
UpperBounds(ranges) == [i \in 1 .. Len(ranges) |-> ranges[i].upperBound]

\* A ledger with the given cumulative totals.
RangesOf(cumulative) ==
    [i \in 1 .. Len(cumulative) |-> [owner |-> ZERO, upperBound |-> cumulative[i]]]

\* The strictly increasing sequences of 1 .. MaxEntries cumulative totals.
CumulativeSeqs ==
    UNION {{c \in [1 .. n -> 1 .. MaxUint] :
               \A i \in 1 .. n - 1 : c[i] < c[i + 1]} : n \in 1 .. MaxEntries}

\* C10 as stated: there is a cumulative-bound sequence (the ledger's own,
\* or any strictly increasing one) and a target equal to some entry's upper
\* bound for which the two searches return different indices.
C10_TieBreakDiffers ==
    \E c \in CumulativeSeqs \cup {UpperBounds(participants)} :
        \E k \in 1 .. Len(c) :
            BinarySearch(RangesOf(c), c[k], 0, Len(c) - 1)
                # BinarySearchOld(c, c[k], 0, Len(c) - 1)

\* C10 amended: on the cumulative totals of every ledger the two versions
\* of the selection return the same index for every target, the targets
\* equal to an entry's upper bound included: both give such a target to the
\* entry that starts there.
C10_SameIndexAtBoundaries ==
    Len(participants) > 0 =>
        \A target \in 0 .. MaxUint :
            LET i == BinarySearch(participants, target, 0, Len(participants) - 1)
                j == BinarySearchOld(UpperBounds(participants), target,
                                     0, Len(participants) - 1)
            IN  /\ i = j
                /\ \A k \in 0 .. Len(participants) - 2 :
                      target = At(participants, k).upperBound => j = k + 1

\* C10 witness: a draw whose target is the upper bound of the entry before
\* the last was decided by both searches for the last entry.
C10_Witness ==
    /\ Drawn
    /\ Len(participants) >= 2
    /\ tx.seed % totalTickets = participants[Len(participants) - 1].upperBound
    /\ BinarySearchOld(UpperBounds(participants), tx.seed % totalTickets,
                       0, Len(participants) - 1) = Len(participants) - 1
    /\ winner = Last(participants).owner

\* The owner of the entry whose range of tickets holds ticket t: a function
\* of the ledger and the ticket alone.
OwnerOfTicket(ranges, t) ==
    CHOOSE o \in {ranges[k].owner : k \in 1 .. Len(ranges)} :
        \E i \in 0 .. Len(ranges) - 1 :
            /\ At(ranges, i).owner = o
            /\ PreviousUpperBound(ranges, i) <= t
            /\ t < At(ranges, i).upperBound

Previewed == tx.op = "previewWinner" /\ tx.err = ""

\* C11: the owner a preview returns and the owner a draw stores are
\* determined by participants, totalTickets and the seed alone: in every
\* reachable state, whoever called, in whatever lifecycle state, at whatever
\* time and after whatever calls, the result is the owner of ticket
\* seed mod totalTickets of the ledger, and exactly one owner holds each
\* ticket.
C11_SelectionDetermined ==
    /\ \A t \in 0 .. totalTickets - 1 :
          Cardinality({i \in 0 .. Len(participants) - 1 :
                          /\ PreviousUpperBound(participants, i) <= t
                          /\ t < At(participants, i).upperBound}) = 1
    /\ Previewed =>
          tx.ret = OwnerOfTicket(participants, tx.seed % totalTickets)
    /\ Drawn =>
          winner = OwnerOfTicket(participants, tx.seed % totalTickets)

\* C11 witness: after the draw, at a later time, an account that is neither
\* owner nor admin previews with another seed and is returned another owner
\* than the winner.
C11_Witness ==
    /\ Previewed
    /\ tx.sender = ALICE
    /\ state = "Finalized"
    /\ now > raffleStartTime
    /\ Len(participants) = 3
    /\ tx.ret = participants[2].owner
    /\ tx.ret # winner

\* C12: a previewWinner call, accepted or rejected, with any seed and by
\* any caller, leaves participants, totalTickets, state, winner,
\* fundsDistributed, entropySequenceNumber, the balance and the escrowed
\* payments as they were.
C12_PreviewChangesNothing ==
    [][tx'.op = "previewWinner" =>
          UNCHANGED <<participants, totalTickets, state, winner,
                      fundsDistributed, entropySequenceNumber, balance,
                      payments, config, oracle>>]_vars

\* C12 witness: a preview was answered while the raffle awaited its draw,
\* and no winner is stored.
C12_Witness ==
    /\ Previewed
    /\ state = "AwaitingDraw"
    /\ tx.ret # ZERO
    /\ winner = ZERO
    /\ balance = totalTickets

\* C13: on a non-empty ledger previewWinner succeeds in every lifecycle
\* state, and it returns the address the draw stores for the same seed: a
\* draw (entropy callback or forced) that directly follows a preview with
\* its seed stores the previewed address, and a preview that directly
\* follows a draw with the draw's seed returns the stored winner.
C13_PreviewIsTheDraw ==
    [][/\ tx'.op = "previewWinner" /\ Len(participants) > 0 =>
             /\ state \in {"Active", "Closed", "AwaitingDraw", "Finalized"}
             /\ tx'.err = ""
             /\ tx'.ret \in {participants[k].owner : k \in 1 .. Len(participants)}
       /\ ( /\ Previewed
            /\ tx'.op \in DrawOps /\ tx'.err = ""
            /\ tx'.seed = tx.seed ) => winner' = tx.ret
       /\ ( /\ Drawn
            /\ tx'.op = "previewWinner"
            /\ tx'.seed = tx.seed ) => tx'.err = "" /\ tx'.ret = winner]_vars

\* C13 witness: a preview was answered while the raffle was still Active,
\* before its end, and returned the owner of the last of several entries.
C13_Witness ==
    /\ Previewed
    /\ state = "Active"
    /\ now < raffleStartTime + raffleDuration
    /\ Len(participants) >= 2
    /\ tx.ret = Last(participants).owner
    /\ tx.ret # participants[1].owner

\* C14: once the raffle has left Active it never returns to Active, every
\* buyTickets is rejected with "Raffle not active", and no operation
\* changes participants or totalTickets: the ledger a draw reads is the
\* ledger at the moment of closing.
C14_LedgerFrozenAfterClose ==
    [][state # "Active" =>
          /\ state' # "Active"
          /\ UNCHANGED <<participants, totalTickets>>
          /\ tx'.op = "buyTickets" => tx'.err = "Raffle not active"]_vars

\* C14 witness: a purchase of an acceptable amount, before the end time,
\* was refused because the raffle had been closed early, with entries in
\* the ledger.
C14_Witness ==
    /\ tx.op = "buyTickets"
    /\ tx.err = "Raffle not active"
    /\ state = "Closed"
    /\ now < raffleStartTime + raffleDuration
    /\ tx.value >= minTicketPrice
    /\ totalTickets + tx.value <= MaxUint
    /\ Len(participants) > 0

\* getParticipantsCount(): participants.length
getParticipantsCount == Len(participants)

\* C15: the raffle starts with no entries, every accepted buyTickets call
\* raises getParticipantsCount() by exactly one and adds an entry of its
\* sender, whether or not the sender already owns entries, and no other
\* step changes the count: the count is the number of accepted calls, not
\* the number of distinct buyers.
C15_OneEntryPerAcceptedCall ==
    /\ getParticipantsCount = 0
    /\ [][IF tx'.op = "buyTickets" /\ tx'.err = ""
          THEN /\ getParticipantsCount' = getParticipantsCount + 1
               /\ Last(participants').owner = tx'.sender
               /\ \A k \in 1 .. Len(participants) :
                     participants'[k] = participants[k]
          ELSE getParticipantsCount' = getParticipantsCount]_vars

\* C15 witness: one account has made three accepted purchases and is the
\* only buyer; the ledger holds three entries, all its own.
C15_Witness ==
    /\ tx.op = "buyTickets" /\ tx.err = ""
    /\ getParticipantsCount = 3
    /\ \A k \in 1 .. 3 : participants[k].owner = tx.sender
    /\ contributed[tx.sender] = totalTickets
    /\ Cardinality({participants[k].owner : k \in 1 .. 3}) = 1

\* C16: a buyTickets call whose value would take totalTickets above the
\* largest value of the integer type is rejected (by the arithmetic check
\* when no earlier requirement fails) and leaves the ledger unchanged;
\* totalTickets and every upperBound stay within the type and equal the
\* true sums of the accepted amounts, so no value has wrapped around.
C16_OverflowRejected ==
    /\ [][tx'.op = "buyTickets" /\ totalTickets + tx'.value > MaxUint =>
            /\ tx'.err # ""
            /\ ( /\ state = "Active"
                 /\ now < raffleStartTime + raffleDuration
                 /\ tx'.value >= minTicketPrice ) => tx'.err = "Panic(0x11)"
            /\ UNCHANGED <<participants, totalTickets, balance, state>>]_vars
    /\ [](/\ totalTickets \in 0 .. MaxUint
          /\ totalTickets = SumContributed
          /\ \A k \in 1 .. Len(participants) :
                /\ participants[k].upperBound \in 1 .. MaxUint
                /\ participants[k].upperBound
                      >= PreviousUpperBound(participants, k - 1) + minTicketPrice)

\* C16 witness: an open raffle holding entries refused, with the
\* arithmetic panic, a purchase of an acceptable amount that would have
\* taken totalTickets past the largest value.
C16_Witness ==
    /\ tx.op = "buyTickets"
    /\ tx.err = "Panic(0x11)"
    /\ state = "Active"
    /\ tx.value >= minTicketPrice
    /\ totalTickets + tx.value > MaxUint
    /\ totalTickets < MaxUint
    /\ Len(participants) > 0

BuyTicketsRejections ==
    {"Raffle not active", "Raffle ended", "Amount below minimum ticket price",
     "Panic(0x11)"}

\* C17: a buyTickets call either is accepted, and then appends one entry
\* and raises totalTickets and the balance by the value together, or is
\* rejected for one of its four reasons, and then leaves participants,
\* totalTickets, state, the balance and every other field of the raffle as
\* before; in no step of any operation does totalTickets change without
\* an entry being appended, or the reverse.
C17_BuyAllOrNothing ==
    [][/\ tx'.op = "buyTickets" =>
             IF tx'.err = ""
             THEN /\ Len(participants') = Len(participants) + 1
                  /\ totalTickets' = totalTickets + tx'.value
                  /\ Last(participants').upperBound = totalTickets'
                  /\ balance' = balance + tx'.value
             ELSE /\ tx'.err \in BuyTicketsRejections
                  /\ UNCHANGED <<raffle, contributed>>
       /\ (totalTickets' # totalTickets) <=> (participants' # participants)]_vars

\* C17 witness: a purchase of an acceptable amount was refused because the
\* duration had elapsed while the raffle was still Active; the ledger and
\* the balance stand as the earlier purchases left them.
C17_Witness ==
    /\ tx.op = "buyTickets"
    /\ tx.err = "Raffle ended"
    /\ state = "Active"
    /\ tx.value >= minTicketPrice
    /\ Len(participants) >= 2
    /\ balance = totalTickets
    /\ totalTickets = Last(participants).upperBound

\* C18: on a ledger of exactly one entry the selection succeeds and every
\* seed selects index 0, the owner of that entry; a draw on such a ledger
\* stores that owner, and a preview returns it.
C18_SingleEntryAlwaysWins ==
    Len(participants) = 1 =>
        /\ SelectWinnerErr(participants, totalTickets) = ""
        /\ PreviewWinnerErr = ""
        /\ \A seed \in 0 .. MaxUint :
              /\ WinnerIndex(participants, totalTickets, seed) = 0
              /\ selectWinner(participants, totalTickets, seed)
                    = participants[1].owner
        /\ Drawn => winner = participants[1].owner
        /\ tx.op = "previewWinner" =>
              tx.err = "" /\ tx.ret = participants[1].owner

\* C18 witness: a draw on a ledger of one entry of several tickets, with a
\* seed that is not a multiple of totalTickets, stored the entry's owner.
C18_Witness ==
    /\ Drawn
    /\ Len(participants) = 1
    /\ totalTickets > 1
    /\ tx.seed % totalTickets # 0
    /\ winner = participants[1].owner

\* C19: over every interleaving of requestEntropy, entropy callbacks and
\* forceSelectWinner the winner is assigned at most once: winner changes
\* only in an accepted draw, from the zero address, on a raffle that is not
\* Finalized, and that draw finalizes the raffle; once the raffle is
\* Finalized it stays Finalized, winner never changes and every further
\* callback (repeated or late ones for the raffle's own sequence number
\* included), forced draw or entropy request is rejected.
C19_DrawnAtMostOnce ==
    /\ [][/\ winner' # winner =>
                /\ winner = ZERO
                /\ state # "Finalized"
                /\ tx'.op \in DrawOps /\ tx'.err = ""
          /\ (tx'.op \in DrawOps /\ tx'.err = "") =>
                /\ winner = ZERO /\ winner' # ZERO
                /\ state # "Finalized" /\ state' = "Finalized"
          /\ state = "Finalized" =>
                /\ state' = "Finalized"
                /\ winner' = winner
                /\ tx'.op \in DrawOps \cup {"requestEntropy"} => tx'.err # ""]_vars
    /\ []((state = "Finalized") <=> (winner # ZERO))

\* C19 witness: the raffle is Finalized and a callback for its own
\* sequence number, carrying a number that would have picked another
\* owner, was refused; the winner stands.
C19_Witness ==
    /\ state = "Finalized"
    /\ tx.op = "respond"
    /\ tx.seq = entropySequenceNumber
    /\ requests[tx.seq].consumer = RAFFLE
    /\ tx.err = "Not awaiting draw"
    /\ winner # ZERO
    /\ winner # selectWinner(participants, totalTickets, tx.seed)

\* C20 as stated: the winner is only ever set from the random number the
\* entropy callback delivers for the raffle's own pending request; no step
\* sets it from a number passed in by the owner or the platform admin.
C20_WinnerOnlyFromOracle ==
    [][winner' # winner =>
          /\ tx'.op \in {"respond", "entropyCallback"}
          /\ state = "AwaitingDraw"
          /\ tx'.seq = entropySequenceNumber
          /\ requests[tx'.seq].consumer = RAFFLE]_vars

\* The owners of the entries of a ledger.
Owners(ranges) == {ranges[k].owner : k \in 1 .. Len(ranges)}

\* C21: whenever the draw has been executed (state Finalized) winner is
\* the owner of some entry of participants, one of the buyers, and so not
\* the zero address; in every other state winner is the zero address.
C21_WinnerIsParticipant ==
    IF state = "Finalized"
    THEN /\ winner \in Owners(participants)
         /\ winner \in Buyers
         /\ contributed[winner] > 0
         /\ winner # ZERO
    ELSE winner = ZERO

\* C21 witness: the entropy callback finalized a raffle with entries of
\* two buyers and stored the buyer that is neither owner nor admin.
C21_Witness ==
    /\ state = "Finalized"
    /\ tx.op = "respond" /\ tx.err = ""
    /\ Cardinality(Owners(participants)) = 2
    /\ winner = ALICE

\* C22: distributeFunds succeeds only on a Finalized raffle whose funds
\* have not been distributed, and sets fundsDistributed; from then on
\* fundsDistributed stays true, every distributeFunds call is rejected and
\* no credit is added to the escrow; credits are recorded by an accepted
\* distributeFunds only.
C22_DistributedOnce ==
    [][/\ (tx'.op = "distributeFunds" /\ tx'.err = "") =>
             /\ state = "Finalized"
             /\ ~fundsDistributed
             /\ fundsDistributed'
       /\ fundsDistributed =>
             /\ fundsDistributed'
             /\ payments' = payments
             /\ tx'.op = "distributeFunds" => tx'.err # ""
       /\ (payments' # payments \/ fundsDistributed' # fundsDistributed) =>
             tx'.op = "distributeFunds" /\ tx'.err = ""]_vars

\* C22 witness: a second distributeFunds by an authorized caller was
\* refused; the winner's credit of the first one stands.
C22_Witness ==
    /\ tx.op = "distributeFunds"
    /\ tx.sender \in {OWNER, ADMIN}
    /\ tx.err = "Funds already distributed"
    /\ fundsDistributed
    /\ payments[winner] > 0
    /\ balance = 0

\* Balances the distribution arithmetic is evaluated on, beyond the ones
\* the raffle reaches: around one and several times BASIS_POINTS, where
\* both divisions round.
Balances ==
    (0 .. MaxUint) \cup {BASIS_POINTS \div 3, BASIS_POINTS - 1, BASIS_POINTS,
                         BASIS_POINTS + 1, 3 * BASIS_POINTS + 7}

SumPayments ==
    payments[PROJECT] + payments[ADMIN] + payments[OWNER] + payments[ALICE]

\* C23: the raffle's balance is the sum of the accepted contributions
\* until the funds are distributed, whatever was sent with and refunded by
\* requestEntropy; after a successful distributeFunds the credits to the
\* project, the platform admin and the winner sum to exactly totalTickets
\* and nothing is left in the raffle; for every balance the three amounts
\* sum to the balance, so no wei is lost to rounding.
C23_FundsConserved ==
    /\ balance = IF fundsDistributed THEN 0 ELSE totalTickets
    /\ balance + SumPayments = totalTickets
    /\ totalTickets = SumContributed
    /\ fundsDistributed =>
          /\ winner \notin {PROJECT, ADMIN}
          /\ payments[PROJECT] + payments[ADMIN] + payments[winner]
                = totalTickets
    /\ tx.op = "distributeFunds" =>
          \A b \in Balances :
              PlatformAmount(b) + ProjectAmount(b) + WinnerAmount(b) = b

\* C23 witness: an odd pool, whose halves round, was distributed after an
\* entropy request; project and winner were credited different amounts.
C23_Witness ==
    /\ tx.op = "distributeFunds" /\ tx.err = ""
    /\ entropySequenceNumber = 1
    /\ totalTickets % 2 = 1
    /\ payments[PROJECT] # payments[winner]
    /\ payments[PROJECT] + payments[winner] = totalTickets

\* Platform fees the constructor accepts (at most 1000 basis points) and
\* project percentages it accepts (1 .. BASIS_POINTS).
Fees == {0, 1, 5, 250, 999, 1000}
Percentages == {1, 3333, 5000, BASIS_POINTS - 1, BASIS_POINTS}

\* The largest n with n * d <= x.
IsFloor(n, x, d) == n * d <= x /\ x < (n + 1) * d

Ended == now >= raffleStartTime + raffleDuration

\* C25 as stated: requestEntropy succeeds only once the raffle's duration
\* has elapsed, and the raffle is never in AwaitingDraw before the end
\* time.
C25_EntropyOnlyAfterEnd ==
    /\ (tx.op = "requestEntropy" /\ tx.err = "") => Ended
    /\ state = "AwaitingDraw" => Ended

\* C26: a buyTickets call at or after raffleStartTime + raffleDuration is
\* rejected and leaves the raffle unchanged, with "Raffle ended" when the
\* state is still Active (with "Raffle not active" otherwise), whatever
\* the amount and the sender.
C26_NoPurchaseAfterEnd ==
    [][tx'.op = "buyTickets" /\ Ended =>
          /\ tx'.err =
                IF state = "Active" THEN "Raffle ended" ELSE "Raffle not active"
          /\ UNCHANGED <<raffle, contributed>>]_vars

\* C26 witness: at exactly the end time a purchase by a buyer without
\* entries was refused with "Raffle ended" by a raffle still Active.
C26_Witness ==
    /\ tx.op = "buyTickets"
    /\ tx.err = "Raffle ended"
    /\ now = raffleStartTime + raffleDuration
    /\ state = "Active"
    /\ tx.sender = ALICE
    /\ contributed[ALICE] = 0
    /\ Len(participants) = 1

Min(a, b) == IF a < b THEN a ELSE b

\* C27 as stated: getLatestRaffles(n) returns min(n, total) addresses, the
\* most recent first: element 0 is the last raffle created, element 1 the
\* one created before it, and so on.
C27_LatestMostRecentFirst ==
    ftx.op = "getLatestRaffles" =>
        LET total == Len(raffles) IN
        /\ ftx.err = ""
        /\ Len(ftx.out) = Min(ftx.args.count, total)
        /\ \A i \in 0 .. Len(ftx.out) - 1 :
              At(ftx.out, i) = At(created, total - 1 - i)

\* C28: getRaffleCount() is the number of successful creations, raffles
\* lists the addresses they returned, in creation order and without
\* duplicates, and isRaffle(a) is true exactly for the addresses in
\* raffles; a rejected creation returns no address and changes neither.
C28_RegistryConsistent ==
    /\ getRaffleCount = Len(created)
    /\ raffles = created
    /\ \A i, j \in 1 .. Len(raffles) : i # j => raffles[i] # raffles[j]
    /\ \A a \in FactoryAddresses :
          isRaffle[a] <=> (\E i \in 1 .. Len(raffles) : raffles[i] = a)
    /\ ftx.op = "createSingleWinnerRaffle" =>
          IF ftx.err = ""
          THEN ftx.out = <<Last(raffles)>> /\ isRaffle[Last(raffles)]
          ELSE ftx.out = <<>>
    /\ ftx.op = "getRaffleCount" => ftx.out = <<Len(created)>>
    /\ ftx.op = "isRaffle" =>
          ftx.out = <<\E i \in 1 .. Len(created) : created[i] = ftx.args.addr>>

\* C28 witness: after two successful creations a creation with duration 0
\* was rejected; two raffles are registered and the address the rejected
\* creation would have taken is not.
C28_Witness ==
    /\ ftx.op = "createSingleWinnerRaffle"
    /\ ftx.err = "Duration must be > 0"
    /\ Len(created) = 2
    /\ getRaffleCount = 2
    /\ isRaffle[raffles[1]] /\ isRaffle[raffles[2]]
    /\ ~isRaffle[nonce]

\* C29 as stated: getAllRaffles(offset, limit) is rejected with "Offset
\* out of bounds" when offset >= total, and otherwise returns the raffles
\* at indices offset .. min(offset + limit, total) - 1 in creation order,
\* with hasMore true exactly when min(offset + limit, total) < total.
C29_PageOfRaffles ==
    ftx.op = "getAllRaffles" =>
        LET total == Len(raffles)
            offset == ftx.args.offset
            end == Min(ftx.args.offset + ftx.args.limit, total)
        IN  IF offset >= total
            THEN ftx.err = "Offset out of bounds"
            ELSE /\ ftx.err = ""
                 /\ ftx.out.result = SubSeq(created, offset + 1, end)
                 /\ ftx.out.hasMore = (end < total)

\* C30 as stated: a buyTickets call made once block.timestamp has reached
\* raffleStartTime + raffleDuration moves the raffle from Active to
\* Closed: after such a call the raffle is no longer Active.
C30_BuyClosesExpiredRaffle ==
    (tx.op = "buyTickets" /\ Ended) => state # "Active"

\* The position of a state in enum RaffleState.
StateRank(s) ==
    CASE s = "Active" -> 0
      [] s = "Closed" -> 1
      [] s = "AwaitingDraw" -> 2
      [] s = "Finalized" -> 3

\* C31: every step keeps the state or moves it forward in the order
\* Active, Closed, AwaitingDraw, Finalized: closeRaffle from Active to
\* Closed, requestEntropy from Closed (or from Active, once expired,
\* closing it on the way) to AwaitingDraw, a draw to Finalized, the entropy
\* callback from AwaitingDraw only; Finalized is terminal; requestEntropy
\* succeeds only while no request has been made, so entropySequenceNumber
\* is written at most once.
C31_StateMovesForward ==
    [][/\ StateRank(state') >= StateRank(state)
       /\ state = "Finalized" => state' = "Finalized"
       /\ state' # state =>
             /\ tx'.err = ""
             /\ tx'.op =
                   CASE state' = "Closed" -> "closeRaffle"
                     [] state' = "AwaitingDraw" -> "requestEntropy"
                     [] state' = "Finalized" ->
                          IF state = "AwaitingDraw"
                             /\ tx'.op \in {"respond", "entropyCallback"}
                          THEN tx'.op ELSE "forceSelectWinner"
             /\ (state = "Active" /\ state' # "Closed") => Ended
       /\ (tx'.op = "requestEntropy" /\ tx'.err = "") =>
             /\ entropySequenceNumber = 0 /\ counter = 0
             /\ state \in {"Active", "Closed"}
             /\ entropySequenceNumber' # 0
       /\ entropySequenceNumber' # entropySequenceNumber =>
             tx'.op = "requestEntropy" /\ tx'.err = ""]_vars

\* C31 witness: a second requestEntropy by the owner, with the fee, was
\* refused while the raffle awaited the draw of its first request.
C31_Witness ==
    /\ tx.op = "requestEntropy"
    /\ tx.sender = OWNER
    /\ tx.value >= baseFee
    /\ tx.err = "Raffle must be closed"
    /\ state = "AwaitingDraw"
    /\ entropySequenceNumber = 1
    /\ counter = 1

\* C32 as stated: a raffle with no tickets sold never leaves Active; no
\* reachable state has state other than Active with participants empty.
C32_EmptyRaffleStaysActive ==
    state # "Active" => Len(participants) > 0

ManagementOps ==
    {"closeRaffle", "requestEntropy", "forceSelectWinner", "distributeFunds"}

\* C33: closeRaffle, requestEntropy, forceSelectWinner and distributeFunds
\* called by an address that is neither the owner nor the platform admin
\* are rejected with "Not authorized", in every state and whatever their
\* arguments, and leave the raffle, its balance and the oracle unchanged;
\* buyTickets and previewWinner are never rejected for their caller.
C33_OnlyOwnerOrAdmin ==
    [][/\ (tx'.op \in ManagementOps /\ tx'.sender \notin {OWNER, ADMIN}) =>
             /\ tx'.err = "Not authorized"
             /\ UNCHANGED <<raffle, oracle, config, contributed>>
       /\ (tx'.op \in ManagementOps /\ tx'.err = "") =>
             tx'.sender \in {OWNER, ADMIN}
       /\ tx'.op = "buyTickets" => tx'.err = BuyTicketsErr(tx'.value)
       /\ tx'.op = "previewWinner" => tx'.err = PreviewWinnerErr
       /\ tx'.op \in {"buyTickets", "previewWinner"} =>
             tx'.err # "Not authorized"]_vars

\* C33 witness: the winner of a Finalized raffle, who is neither owner nor
\* admin, called distributeFunds and was refused; nothing was distributed.
C33_Witness ==
    /\ tx.op = "distributeFunds"
    /\ tx.sender = ALICE
    /\ tx.err = "Not authorized"
    /\ state = "Finalized"
    /\ winner = ALICE
    /\ ~fundsDistributed
    /\ balance = totalTickets

\* What a callback needs to be accepted.
CallbackAccepted(sequenceNumber, provider) ==
    /\ state = "AwaitingDraw"
    /\ sequenceNumber = entropySequenceNumber
    /\ provider = PROVIDER

\* C34: an entropy callback, delivered directly or through
\* MockEntropy.respond, is accepted exactly when state is AwaitingDraw, its
\* sequence number is entropySequenceNumber and its provider is the
\* raffle's entropy provider; an accepted one sets winner and moves state
\* to Finalized in the same step; any other (wrong state, stale or foreign
\* sequence number, wrong provider) is rejected for that reason and leaves
\* the raffle, winner and state included, unchanged.
C34_CallbackAcceptance ==
    [][/\ tx'.op = "entropyCallback" =>
             /\ (tx'.err = "") <=> CallbackAccepted(tx'.seq, tx'.provider)
             /\ tx'.err \in {"", "Not awaiting draw", "Invalid sequence number",
                              "Invalid provider"}
             /\ tx'.err = "Invalid sequence number" =>
                   state = "AwaitingDraw" /\ tx'.seq # entropySequenceNumber
             /\ tx'.err = "Invalid provider" =>
                   state = "AwaitingDraw" /\ tx'.provider # PROVIDER
       /\ tx'.op = "respond" =>
             (tx'.err = "") <=>
                 /\ requests[tx'.seq].consumer = RAFFLE
                 /\ CallbackAccepted(tx'.seq, requests[tx'.seq].provider)
       /\ tx'.op \in {"entropyCallback", "respond"} =>
             IF tx'.err = ""
             THEN /\ winner = ZERO
                  /\ winner' = selectWinner(participants, totalTickets, tx'.seed)
                  /\ winner' # ZERO
                  /\ state' = "Finalized"
                  /\ UNCHANGED <<participants, totalTickets, balance,
                                 entropySequenceNumber, fundsDistributed>>
             ELSE UNCHANGED raffle]_vars

\* C34 witness: while the raffle awaited its draw a callback with a
\* sequence number that is not the raffle's, from the right provider, was
\* refused; no winner is stored.
C34_Witness ==
    /\ tx.op = "entropyCallback"
    /\ tx.err = "Invalid sequence number"
    /\ tx.provider = PROVIDER
    /\ tx.seq # entropySequenceNumber
    /\ state = "AwaitingDraw"
    /\ winner = ZERO

\* C35: a rejected requestEntropy, whatever the require that failed
\* (insufficient fee, no tickets sold, no participants, not authorized,
\* still active, not closed), leaves the raffle and the entropy contract
\* exactly as before: the writes of Closed after expiry and of AwaitingDraw
\* before the fee check are rolled back.  So whenever the raffle is in
\* AwaitingDraw, entropySequenceNumber names a request registered for this
\* raffle with the entropy contract.
C35_RejectedRequestRolledBack ==
    [][/\ (tx'.op = "requestEntropy" /\ tx'.err # "") =>
             UNCHANGED <<raffle, oracle, config, contributed>>
       /\ state' = "AwaitingDraw" =>
             /\ entropySequenceNumber' \in 1 .. counter'
             /\ requests'[entropySequenceNumber'] =
                    [consumer |-> RAFFLE, provider |-> PROVIDER]]_vars

\* C35 witness: the owner asked for entropy on an expired raffle with
\* tickets sold, paying less than the fee; the call failed after both
\* tentative writes and the raffle is still Active with no request made.
C35_Witness ==
    /\ tx.op = "requestEntropy"
    /\ tx.sender = OWNER
    /\ tx.err = "Insufficient fee"
    /\ tx.value < baseFee
    /\ state = "Active"
    /\ Ended
    /\ Len(participants) > 0
    /\ entropySequenceNumber = 0
    /\ counter = 0

\* The search of the current ledger for a target, unfolded for at most as
\* many iterations as the ledger has entries.
RunFor(randomTicket) ==
    SearchRun(participants, randomTicket, 0, Len(participants) - 1,
              Len(participants))

\* C37: for every ledger with at least one entry and every target, the
\* search loop of _selectWinner terminates: each iteration has
\* 0 <= left <= mid < right <= length - 1, left + right fits the word, the
\* interval it leaves is strictly smaller and not empty, and after fewer
\* iterations than the ledger has entries the loop has ended with
\* left = right, a valid index, the one the selection uses.
C37_SearchTerminates ==
    Len(participants) >= 1 =>
        \A randomTicket \in 0 .. MaxUint :
            LET run == RunFor(randomTicket)
                end == SearchEnd(run, 0, Len(participants) - 1)
            IN  /\ \A k \in 1 .. Len(run) :
                      /\ 0 <= run[k].left
                      /\ run[k].left <= run[k].mid
                      /\ run[k].mid < run[k].right
                      /\ run[k].right <= Len(participants) - 1
                      /\ run[k].left + run[k].right <= MaxUint
                      /\ run[k].after.left <= run[k].after.right
                      /\ run[k].after.right - run[k].after.left
                            < run[k].right - run[k].left
                      /\ run[k].after.left >= run[k].left
                      /\ run[k].after.right <= run[k].right
                /\ Len(run) < Len(participants)
                /\ end.left = end.right
                /\ end.left \in 0 .. Len(participants) - 1
                /\ end.left = BinarySearch(participants, randomTicket,
                                           0, Len(participants) - 1)

\* C37 witness: a draw on a ledger of MaxEntries entries whose search took
\* two iterations: right moved down to mid, then left moved up past mid.
C37_Witness ==
    /\ tx.op = "respond"
    /\ tx.err = ""
    /\ Len(participants) = MaxEntries
    /\ LET run == RunFor(RandomTicket(totalTickets, tx.seed)) IN
         /\ Len(run) = 2
         /\ run[1].after = [left |-> 0, right |-> 1]
         /\ run[2].after = [left |-> 1, right |-> 1]
         /\ At(participants, SearchEnd(run, 0, MaxEntries - 1).left).owner = winner

\* C38: whatever the interleaving of the endCampaign requests for the
\* campaign, at most one raffle_winners row exists for it, and a status
\* that is no longer 'active' was written by the one request that
\* inserted the row.
C38_AtMostOneWinner ==
    /\ Len(raffleWinners) <= 1
    /\ Cardinality({r \in Requests : handlers[r].pc \in {"inserted", "done"}}) <= 1

\* C36: when time passes and the owner's accepted calls (closeRaffle,
\* requestEntropy, forceSelectWinner, distributeFunds) are weakly fair, a
\* raffle with at least one accepted contribution eventually reaches
\* Finalized, and a Finalized raffle eventually has fundsDistributed,
\* whether or not the entropy provider ever answers.
C36_EventuallyDistributed ==
    /\ (Len(participants) > 0) ~> (state = "Finalized")
    /\ (state = "Finalized") ~> fundsDistributed

\* C36 witness: a raffle whose entropy request was made has been finalized
\* and its funds distributed by the owner.
C36_Witness ==
    /\ tx.op = "distributeFunds"
    /\ tx.sender = OWNER
    /\ tx.err = ""
    /\ state = "Finalized"
    /\ fundsDistributed
    /\ entropySequenceNumber = 1
    /\ Len(participants) > 0
=============================================================================
